---- MODULE Spec2Model ----
(***************************************************************************)
(* A model of ChromeTrace2OTF2 (src/chrome2otf2.py): the conversion of a   *)
(* Chrome/TensorFlow trace document, and of an optional memory-profile     *)
(* document, into calls on an OTF2 writer.                                 *)
(*                                                                         *)
(* The OTF2 writer is the external sink.  It is modelled by the log of the *)
(* calls it receives (the variable sink); the handle a creation call       *)
(* returns is the position of that call in the log.                        *)
(*                                                                         *)
(* Time.  A JSON timestamp is a fractional number of microseconds and      *)
(* _convert_time_to_ticks truncates timestamp * 1e3 to an integer.  The    *)
(* model keeps a timestamp as an integer number of 1/SubTicks nanoseconds  *)
(* (a timestamp of up to 3 decimal digits is a multiple of SubTicks), so   *)
(* that the truncation is a real operation; FloatProduct gives the double  *)
(* the multiplication by 1e3 yields.                                       *)
(***************************************************************************)
EXTENDS Integers, Sequences, FiniteSets, TLC

VARIABLES
    traceEvents,         \* chrome_data['traceEvents'], the decoded records
    memoryData,          \* memory_data['memoryProfilePerAllocator'], in dict order
    _memory_trace_file,  \* path of the memory-profile document, NoFile for None
    pc,                  \* position of the run inside convert_trace
    i,                   \* index of the record / sub-event / snapshot in the running loop
    a,                   \* index of the allocator in the loop of line 169
    error,               \* the exception that ended the run, "" when none
    closed,              \* TRUE once the with-block of line 89 has released the sink
    sink,                \* log of all calls received by the OTF2 writer
    _process_map,        \* pid -> [name, group, threads: tid -> location handle]
    _function_map,       \* region name -> region handle
    _metric_map,         \* metric name -> metric handle
    _dataflow_start,     \* pending flow id, NoFlow for None
    _otf2_system_tree_host,
    sorted_events,       \* the sub-events of the second pass
    memory_activities,   \* activity label -> region handle (local of _convert_memory_profile)
    otf2_attributes,     \* attribute key -> attribute handle (local of _convert_memory_profile)
    last_leave,          \* region handle of the deferred leave, 0 for None
    location,            \* location handle of the allocator being walked, 0 before the loop
    timestamp,           \* timestamp of the last snapshot walked
    stdout               \* the lines the run has printed

vars == <<traceEvents, memoryData, _memory_trace_file, pc, i, a, error, closed, sink,
          _process_map, _function_map, _metric_map, _dataflow_start,
          _otf2_system_tree_host, sorted_events, memory_activities, otf2_attributes,
          last_leave, location, timestamp, stdout>>

inputVars == <<traceEvents, memoryData, _memory_trace_file>>
registryVars == <<_process_map, _function_map, _metric_map>>
memoryVars == <<memory_activities, otf2_attributes, last_leave, location, timestamp, a>>

(***************************************************************************)
(* Bounds of the model.                                                    *)
(***************************************************************************)
SubTicks == 2          \* resolution of the model's time below one nanosecond
MaxSeqEvents == 2      \* complete records of a document of InitSeq
MaxRegEvents == 3      \* records of a document of InitReg
MaxSkipEvents == 3     \* records behind the process_name record of a document of InitSkip
MaxAllocators == 2     \* allocators of a memory-profile document of InitMem
MaxSnapshots == 2      \* snapshots of one allocator
MaxFullEvents == 2     \* complete records of a document of InitFull

NoFlow == -1           \* _dataflow_start is None
NoFile == ""           \* _memory_trace_file is None
ProfileFile == "host.memory_profile.json"       \* a readable memory-profile document
UnreadableFile == "missing.memory_profile.json" \* a path open() raises OSError on
EmptyMap == <<>>       \* an empty dict

(***************************************************************************)
(* JSON values of the trace document.                                      *)
(***************************************************************************)
\* A decoded JSON object of the event array.  keys is the set of keys the
\* object has; the field of an absent key holds a default nobody may read.
Record(keys, ph, name, pid, tid, ts, dur, id, argsName, argsBytes) ==
    [null |-> FALSE, keys |-> keys, ph |-> ph, name |-> name, pid |-> pid, tid |-> tid,
     ts |-> ts, dur |-> dur, id |-> id, argsName |-> argsName, argsBytes |-> argsBytes]

NullRecord == [Record({}, "", "", 0, 0, 0, 0, 0, "", 0) EXCEPT !.null = TRUE]
EmptyRecord == Record({}, "", "", 0, 0, 0, 0, 0, "", 0)

ProcessNameRecord(pid, n) ==
    Record({"ph", "name", "pid", "args"}, "M", "process_name", pid, 0, 0, 0, 0, n, 0)
ThreadNameRecord(pid, tid, n) ==
    Record({"ph", "name", "pid", "tid", "args"}, "M", "thread_name", pid, tid, 0, 0, 0, n, 0)
CounterRecord(name, pid, tid, ts, bytes) ==
    Record({"ph", "name", "pid", "tid", "ts", "args"}, "C", name, pid, tid, ts, 0, 0, "", bytes)
CompleteRecord(pid, tid, name, ts, dur) ==
    Record({"ph", "name", "pid", "tid", "ts", "dur"}, "X", name, pid, tid, ts, dur, 0, "", 0)
FlowRecord(ph, id) ==
    Record({"ph", "name", "pid", "tid", "ts", "id"}, ph, "flow", 1, 1, 0, 0, id, "", 0)

\* Python's truth value of a record: None and {} are false.
Truthy(event) == ~event.null /\ event.keys # {}

\* 'k' in event.  On None the test raises TypeError (see SplitRaises).
Has(event, k) == k \in event.keys

(***************************************************************************)
(* The sink: the log of calls, and the handles.                            *)
(***************************************************************************)
Definition(call, name, type, parent) ==
    [call |-> call, name |-> name, type |-> type, parent |-> parent,
     loc |-> 0, time |-> 0, ref |-> 0, value |-> 0, attrs |-> <<>>, src |-> 0]

\* src: for the enter and the leave of a complete record, the index of that
\* record in traceEvents (history only, the code does not read it).
Event(call, loc, time, ref, value, attrs, src) ==
    [call |-> call, name |-> "", type |-> "", parent |-> 0,
     loc |-> loc, time |-> time, ref |-> ref, value |-> value, attrs |-> attrs, src |-> src]

\* dict[k] = v
Put(map, k, v) == [x \in (DOMAIN map) \cup {k} |-> IF x = k THEN v ELSE map[x]]

(***************************************************************************)
(* Time conversion.                                                        *)
(***************************************************************************)
\* int(x): truncation toward zero of x / SubTicks.
TruncDiv(x, d) == IF x >= 0 THEN x \div d ELSE -((-x) \div d)

\* The timestamps n / 1000 microseconds, n in 0..2047, whose IEEE-754 double
\* times 1e3 is a double below n (1.001 * 1e3 = 1000.9999999999999).  For
\* every other n of 0..2047, and for n = 10000, 15000, 1000123, the product
\* is not below n.
ProductBelow ==
    {1001, 1003, 1005, 1007, 1009, 1011, 1013, 1015, 1017, 1019, 1021, 1023,
     2002, 2006, 2010, 2014, 2018, 2022, 2026, 2030, 2034, 2038, 2042, 2046}

\* timestamp * 1e3 as the double arithmetic yields it, in 1/SubTicks ns: a
\* product that falls below the whole number n lies in the last sub-tick
\* below it.  (The sum ts + dur of line 274 is taken as the double nearest
\* to the decimal sum; the sums the specifications draw are such.)
FloatProduct(t) ==
    IF t % SubTicks = 0 /\ (t \div SubTicks) \in ProductBelow THEN t - 1 ELSE t

_convert_time_to_ticks(t) == TruncDiv(FloatProduct(t), SubTicks)

(***************************************************************************)
(* The entity registry.  Each operator returns the log and the maps as the *)
(* method leaves them.                                                     *)
(***************************************************************************)
_otf2_add_process(s, pm, pid, host, name) ==
    LET process_name == IF name # "" THEN name ELSE ToString(pid)
        s1 == Append(s, Definition("location_group", process_name, "", host))
        otf2_location_group == Len(s1)
    IN  [sink |-> s1,
         map  |-> IF pid \in DOMAIN pm
                  THEN [pm EXCEPT ![pid].group = otf2_location_group,
                                  ![pid].name = process_name]
                  ELSE Put(pm, pid, [name |-> process_name,
                                     group |-> otf2_location_group,
                                     threads |-> EmptyMap])]

\* name = "" stands for name=None.  The caller has checked pid \in DOMAIN pm.
_otf2_add_thread(s, pm, tid, pid, name) ==
    LET process == pm[pid]
        s1 == Append(s, Definition("event_writer",
                                   IF name # "" THEN name
                                   ELSE process.name \o " " \o ToString(tid),
                                   "", process.group))
    IN  [sink |-> s1, map |-> [pm EXCEPT ![pid].threads = Put(@, tid, Len(s1))]]

\* A registration of a region the sink is not told of.
_otf2_add_function_unlogged(s, fm, name) ==
    [sink |-> s, functions |-> Put(fm, name, Len(s) + 1)]

_otf2_add_function(s, fm, name) ==
    LET s1 == Append(s, Definition("region", name, "", 0))
    IN  [sink |-> s1, functions |-> Put(fm, name, Len(s1))]

\* A metric the sink is asked for twice.
otf2_add_metric_twice(s, mm, name, unit) ==
    LET s1 == Append(Append(s, Definition("metric", name, unit, 0)),
                     Definition("metric", name, unit, 0))
    IN  [sink |-> s1, metrics |-> Put(mm, name, Len(s1))]

otf2_add_metric(s, mm, name, unit) ==
    LET s1 == Append(s, Definition("metric", name, unit, 0))
    IN  [sink |-> s1, metrics |-> Put(mm, name, Len(s1))]

(***************************************************************************)
(* The handlers of the first pass.                                         *)
(***************************************************************************)
\* No thread is taken for a thread of a system process.
IsSystemThreadNever(pid, tid) == FALSE

\* Lines 241-243: the thread of a system process, e.g. swapper.
IsSystemThread(pid, tid) == pid = 0 /\ tid = 0

\* Lines 257-258: a metadata record of another name is printed.
MetadataPrints(event) ==
    ~(Has(event, "name") /\ event.name \in {"process_name", "thread_name"})

\* A check of the declaration that never fires.
ThreadDeclaredNever(pm, pid, tid) == FALSE

\* Lines 251-253: the condition under which the assert fails.
ThreadDeclared(pm, pid, tid) == tid \in DOMAIN pm[pid].threads

_handle_metadata(event, s, pm, host) ==
    LET same == [sink |-> s, map |-> pm, error |-> ""]
    IN
    IF Has(event, "name") /\ event.name = "process_name" THEN
        IF ~(Has(event, "args") /\ Has(event, "pid")) THEN [same EXCEPT !.error = "KeyError"]
        ELSE LET r == _otf2_add_process(s, pm, event.pid, host,
                                        event.argsName \o " " \o ToString(event.pid))
             IN  [sink |-> r.sink, map |-> r.map, error |-> ""]
    ELSE IF Has(event, "name") /\ event.name = "thread_name" THEN
        IF ~(Has(event, "pid") /\ Has(event, "tid")) THEN [same EXCEPT !.error = "KeyError"]
        ELSE IF IsSystemThread(event.pid, event.tid) THEN same
        ELSE IF ~Has(event, "args") THEN [same EXCEPT !.error = "KeyError"]
        ELSE LET r1 == IF event.pid \notin DOMAIN pm
                       THEN _otf2_add_process(s, pm, event.pid, host,
                                              event.argsName \o " " \o ToString(event.pid))
                       ELSE [sink |-> s, map |-> pm]
             IN  IF ThreadDeclared(r1.map, event.pid, event.tid)
                 THEN [sink |-> r1.sink, map |-> r1.map, error |-> "AssertionError"]
                 ELSE LET r2 == _otf2_add_thread(r1.sink, r1.map, event.tid, event.pid,
                                                 event.argsName \o " " \o ToString(event.tid))
                      IN  [sink |-> r2.sink, map |-> r2.map, error |-> ""]
    ELSE same

_handle_metric(event, s, pm, mm) ==
    LET same == [sink |-> s, map |-> pm, metrics |-> mm, error |-> ""]
    IN
    IF ~(Has(event, "name") /\ Has(event, "pid") /\ Has(event, "tid"))
    THEN [same EXCEPT !.error = "KeyError"]
    ELSE IF event.name # "Allocated Bytes" THEN same
    ELSE LET r1 == IF event.name \notin DOMAIN mm
                   THEN otf2_add_metric(s, mm, event.name, "Bytes")
                   ELSE [sink |-> s, metrics |-> mm]
         IN  IF event.pid \notin DOMAIN pm
             THEN [sink |-> r1.sink, map |-> pm, metrics |-> r1.metrics, error |-> "KeyError"]
             ELSE LET r2 == IF event.tid \notin DOMAIN pm[event.pid].threads
                            THEN _otf2_add_thread(r1.sink, pm, event.tid, event.pid, "")
                            ELSE [sink |-> r1.sink, map |-> pm]
                      otf2_thread == r2.map[event.pid].threads[event.tid]
                  IN  IF ~(Has(event, "args") /\ Has(event, "ts"))
                      THEN [sink |-> r2.sink, map |-> r2.map, metrics |-> r1.metrics,
                            error |-> "KeyError"]
                      ELSE [sink |-> Append(r2.sink,
                                        Event("metric_sample", otf2_thread,
                                              _convert_time_to_ticks(event.ts),
                                              r1.metrics[event.name], event.argsBytes,
                                              <<>>, 0)),
                            map |-> r2.map, metrics |-> r1.metrics, error |-> ""]

\* Lines 311-312 and 318-319: the event is printed as a corrupted trace.
DataflowPrints(event, start) ==
    \/ event.ph = "s" /\ start # NoFlow
    \/ event.ph = "t" /\ start # event.id

_handle_dataflow(event, start) ==
    IF event.ph = "s" THEN event.id
    ELSE IF event.ph = "t" THEN NoFlow
    ELSE start

(***************************************************************************)
(* The handler of the second pass.  sub is an element of sorted_events:    *)
(* sub.ev is the record (without 'dur' for an enter), sub.src its index.   *)
(***************************************************************************)
_handle_event(sub, s, pm, fm) ==
    LET event == sub.ev
        same == [sink |-> s, map |-> pm, functions |-> fm, error |-> ""]
    IN
    IF ~(Has(event, "pid") /\ Has(event, "tid")) \/ event.pid \notin DOMAIN pm
    THEN [same EXCEPT !.error = "KeyError"]
    ELSE LET r1 == IF event.tid \notin DOMAIN pm[event.pid].threads
                   THEN _otf2_add_thread(s, pm, event.tid, event.pid, "")
                   ELSE [sink |-> s, map |-> pm]
         IN  IF ~Has(event, "name")
             THEN [sink |-> r1.sink, map |-> r1.map, functions |-> fm, error |-> "KeyError"]
             ELSE LET r2 == IF event.name \notin DOMAIN fm
                            THEN _otf2_add_function(r1.sink, fm, event.name)
                            ELSE [sink |-> r1.sink, functions |-> fm]
                      otf2_thread == r1.map[event.pid].threads[event.tid]
                      otf2_function == r2.functions[event.name]
                  IN  [sink |-> Append(r2.sink,
                                   IF Has(event, "dur")
                                   THEN Event("leave", otf2_thread,
                                              _convert_time_to_ticks(event.ts + event.dur),
                                              otf2_function, 0, <<>>, sub.src)
                                   ELSE Event("enter", otf2_thread,
                                              _convert_time_to_ticks(event.ts),
                                              otf2_function, 0, <<>>, sub.src)),
                       map |-> r1.map, functions |-> r2.functions, error |-> ""]

(***************************************************************************)
(* Lines 132-141: the split of the complete records and the stable sort.   *)
(***************************************************************************)
IsComplete(event) ==
    Has(event, "ts") /\ Has(event, "dur") /\ Has(event, "ph") /\ event.ph = "X"

\* A sort key that forgets the duration.
SortKeyNoDur(sub) == sub.ev.ts

\* key=lambda e: e['ts'] + (e['dur'] if 'dur' in e else 0)
SortKey(sub) == sub.ev.ts + (IF Has(sub.ev, "dur") THEN sub.ev.dur ELSE 0)

\* A split that appends the record before its copy without 'dur'.
RECURSIVE SplitEventsLeaveFirst(_, _)
SplitEventsLeaveFirst(events, k) ==
    IF k > Len(events) THEN <<>>
    ELSE IF Has(events[k], "ts") /\ Has(events[k], "dur") /\ Has(events[k], "ph")
            /\ events[k].ph = "X"
         THEN <<[ev |-> events[k], src |-> k],
                [ev |-> [events[k] EXCEPT !.keys = @ \ {"dur"}, !.dur = 0], src |-> k]>>
              \o SplitEventsLeaveFirst(events, k + 1)
         ELSE SplitEventsLeaveFirst(events, k + 1)

RECURSIVE SplitEvents(_, _)
SplitEvents(events, k) ==
    IF k > Len(events) THEN <<>>
    ELSE IF IsComplete(events[k])
         THEN <<[ev |-> [events[k] EXCEPT !.keys = @ \ {"dur"}, !.dur = 0], src |-> k],
                [ev |-> events[k], src |-> k]>> \o SplitEvents(events, k + 1)
         ELSE SplitEvents(events, k + 1)

\* Insertion before the elements of the same key: a sort that is not stable.
RECURSIVE InsertByKeyUnstable(_, _)
InsertByKeyUnstable(sorted, sub) ==
    IF sorted = <<>> THEN <<sub>>
    ELSE IF sorted[1].ev.ts + (IF Has(sorted[1].ev, "dur") THEN sorted[1].ev.dur ELSE 0)
            < sub.ev.ts + (IF Has(sub.ev, "dur") THEN sub.ev.dur ELSE 0)
         THEN <<Head(sorted)>> \o InsertByKeyUnstable(Tail(sorted), sub)
         ELSE <<sub>> \o sorted

\* Insertion behind every element whose key is not larger: a stable sort.
RECURSIVE InsertByKey(_, _)
InsertByKey(sorted, sub) ==
    IF sorted = <<>> THEN <<sub>>
    ELSE IF SortKey(Head(sorted)) <= SortKey(sub)
         THEN <<Head(sorted)>> \o InsertByKey(Tail(sorted), sub)
         ELSE <<sub>> \o sorted

RECURSIVE SortFrom(_, _)
SortFrom(subs, done) ==
    IF subs = <<>> THEN done ELSE SortFrom(Tail(subs), InsertByKey(done, Head(subs)))

SortedByKey(subs) == SortFrom(subs, <<>>)

\* 'ts' in event raises TypeError when event is None.
SplitRaises(events) == \E k \in 1..Len(events) : events[k].null

(***************************************************************************)
(* JSON values of the memory-profile document.                             *)
(***************************************************************************)
PsPerNs == 1000

\* A scalar: t is its JSON type; a string with text = "" spells the number n.
StrValue(text) == [t |-> "str", n |-> 0, text |-> text]
NumStrValue(n) == [t |-> "str", n |-> n, text |-> ""]
IntValue(n) == [t |-> "int", n |-> n, text |-> ""]
FloatValue(n) == [t |-> "float", n |-> n, text |-> ""]   \* a float of integer part n

\* int(value); IntRaises tells when it raises ValueError.
PyInt(value) == IntValue(value.n)
IntRaises(value) == value.t = "str" /\ value.text # ""

uint_metadata ==
    {"stackReservedBytes", "heapAllocatedBytes", "freeMemoryBytes", "peakBytesInUse",
     "requestedBytes", "allocationBytes", "address", "stepId"}

\* A dict in insertion order: a sequence of [key, value] with distinct keys.
DictKeys(d) == {d[k].key : k \in 1..Len(d)}
DictGet(d, key) == (CHOOSE e \in {d[k] : k \in 1..Len(d)} : e.key = key).value

\* d.update(other): a key d has keeps its place, a new key is appended.
RECURSIVE DictUpdate(_, _)
DictUpdate(d, other) ==
    IF other = <<>> THEN d
    ELSE LET e == Head(other)
             d1 == IF e.key \in DictKeys(d)
                   THEN [k \in 1..Len(d) |-> IF d[k].key = e.key THEN e ELSE d[k]]
                   ELSE Append(d, e)
         IN  DictUpdate(d1, Tail(other))

Snapshot(activity, metadata, stats, ps) ==
    [activityMetadata |-> <<[key |-> "memoryActivity", value |-> StrValue(activity)]>>
                          \o metadata,
     aggregationStats |-> stats,
     timeOffsetPs |-> ps]

(***************************************************************************)
(* Lines 180-195: the attribute loop of one snapshot.  It returns the log, *)
(* otf2_attributes and otf2_event_attributes (a dict in insertion order    *)
(* from attribute handle to value).                                        *)
(***************************************************************************)
\* `key is isinstance(value, T)`: the identity of a str, the key, and a bool.
KeyIs(key, bool) == FALSE

\* A typing that inspects the value, as isinstance alone would.
AttributeTypeByValue(key, value) ==
    IF key \in uint_metadata THEN "UINT64"
    ELSE IF value.t = "int" THEN "INT64"
    ELSE IF value.t = "float" THEN "DOUBLE"
    ELSE "STRING"

\* Lines 184-191.
AttributeType(key, value) ==
    IF key \in uint_metadata THEN "UINT64"
    ELSE IF KeyIs(key, value.t = "int") THEN "INT64"
    ELSE IF KeyIs(key, value.t = "float") THEN "DOUBLE"
    ELSE "STRING"

RECURSIVE AttributeLoop(_, _, _, _)
AttributeLoop(items, s, attributes, event_attributes) ==
    IF items = <<>>
    THEN [sink |-> s, attributes |-> attributes, event |-> event_attributes, error |-> ""]
    ELSE LET key == Head(items).key
             value == Head(items).value
             fresh == key \notin DOMAIN attributes
         IN  IF fresh /\ key \in uint_metadata /\ IntRaises(value)
             THEN [sink |-> s, attributes |-> attributes, event |-> event_attributes,
                   error |-> "ValueError"]
             ELSE LET s1 == IF fresh
                            THEN Append(s, Definition("attribute", key,
                                                      AttributeType(key, value), 0))
                            ELSE s
                      attributes1 == IF fresh THEN Put(attributes, key, Len(s1))
                                     ELSE attributes
                      value1 == IF fresh /\ key \in uint_metadata THEN PyInt(value)
                                ELSE value
                  IN  AttributeLoop(Tail(items), s1, attributes1,
                                    Append(event_attributes,
                                           [key |-> attributes1[key], value |-> value1]))

(***************************************************************************)
(* Control flow of convert_trace.                                          *)
(***************************************************************************)
\* Where the run goes when _convert_event_trace returns (line 99).
AfterEventTrace == IF _memory_trace_file # NoFile THEN "memory" ELSE "exit"

AfterFirstPass(k) == IF k > Len(traceEvents) THEN "split" ELSE "first_pass"

\* An exception that reaches the caller past the sink's __exit__.
RaiseUnclosed(err) == /\ pc' = "returned"
                      /\ error' = err

\* An exception leaves the with-block of line 89.
Raise(err) == /\ pc' = "exit"
              /\ error' = err

Init0 ==
    /\ pc = "init"
    /\ i = 0
    /\ a = 0
    /\ error = ""
    /\ closed = FALSE
    /\ sink = <<>>
    /\ _process_map = EmptyMap
    /\ _function_map = EmptyMap
    /\ _metric_map = EmptyMap
    /\ _dataflow_start = NoFlow
    /\ _otf2_system_tree_host = 0
    /\ sorted_events = <<>>
    /\ memory_activities = EmptyMap
    /\ otf2_attributes = EmptyMap
    /\ last_leave = 0
    /\ location = 0
    /\ timestamp = 0
    /\ stdout = <<>>

\* Lines 83-96: the sink is opened and the two system tree nodes are created.
ConvertTrace ==
    /\ pc = "init"
    /\ sink' = <<Definition("system_tree_node", "root node", "", 0),
                 Definition("system_tree_node", "myHost", "", 1)>>
    /\ _otf2_system_tree_host' = 2
    /\ i' = 1
    /\ pc' = AfterFirstPass(1)
    /\ UNCHANGED <<inputVars, stdout, registryVars, memoryVars, error, closed, _dataflow_start,
                   sorted_events>>

\* The record the first pass is at.
AtRecord == pc = "first_pass" /\ i \in 1..Len(traceEvents)

\* Lines 108-110: None and {} are passed over.
SkipEmptyEvent ==
    /\ AtRecord
    /\ ~Truthy(traceEvents[i])
    /\ i' = i + 1
    /\ pc' = AfterFirstPass(i + 1)
    /\ UNCHANGED <<inputVars, stdout, registryVars, memoryVars, error, closed, sink,
                   _dataflow_start, _otf2_system_tree_host, sorted_events>>

\* Line 113: event['ph'] of a record without 'ph' raises KeyError.
MissingPhase ==
    /\ AtRecord
    /\ Truthy(traceEvents[i])
    /\ ~Has(traceEvents[i], "ph")
    /\ Raise("KeyError")
    /\ UNCHANGED <<inputVars, stdout, registryVars, memoryVars, closed, sink, i,
                   _dataflow_start, _otf2_system_tree_host, sorted_events>>

Dispatched(ph) ==
    /\ AtRecord
    /\ Truthy(traceEvents[i])
    /\ Has(traceEvents[i], "ph")
    /\ traceEvents[i].ph \in ph

\* Lines 113-114 and 231-258.
HandleMetadata ==
    /\ Dispatched({"M"})
    /\ LET r == _handle_metadata(traceEvents[i], sink, _process_map, _otf2_system_tree_host)
       IN  /\ sink' = r.sink
           /\ _process_map' = r.map
           /\ IF r.error # ""
              THEN Raise(r.error) /\ i' = i
              ELSE i' = i + 1 /\ pc' = AfterFirstPass(i + 1) /\ error' = error
    /\ stdout' = IF MetadataPrints(traceEvents[i])
                 THEN Append(stdout, "Unknown metadata event")
                 ELSE stdout
    /\ UNCHANGED <<inputVars, _function_map, _metric_map, memoryVars, closed,
                   _dataflow_start, _otf2_system_tree_host, sorted_events>>

\* Lines 117-118 and 309-322.
HandleDataflow ==
    /\ Dispatched({"s", "t", "f"})
    /\ IF ~Has(traceEvents[i], "id") /\ traceEvents[i].ph \in {"s", "t"}
       THEN \* event['id'] raises: at line 314 behind the print and the reset
            \* of lines 312-313, at line 318 before anything else.
            /\ Raise("KeyError")
            /\ i' = i
            /\ _dataflow_start' = IF traceEvents[i].ph = "s" THEN NoFlow
                                  ELSE _dataflow_start
            /\ stdout' = IF traceEvents[i].ph = "s" /\ _dataflow_start # NoFlow
                         THEN Append(stdout, "corrupted trace in dataflow")
                         ELSE stdout
       ELSE /\ _dataflow_start' = _handle_dataflow(traceEvents[i], _dataflow_start)
            /\ stdout' = IF DataflowPrints(traceEvents[i], _dataflow_start)
                         THEN Append(stdout, "corrupted trace in dataflow")
                         ELSE stdout
            /\ i' = i + 1
            /\ pc' = AfterFirstPass(i + 1)
            /\ error' = error
    /\ UNCHANGED <<inputVars, registryVars, memoryVars, closed, sink,
                   _otf2_system_tree_host, sorted_events>>

\* Lines 121-122 and 212-229.
HandleMetric ==
    /\ Dispatched({"C"})
    /\ LET r == _handle_metric(traceEvents[i], sink, _process_map, _metric_map)
       IN  /\ sink' = r.sink
           /\ _process_map' = r.map
           /\ _metric_map' = r.metrics
           /\ IF r.error # ""
              THEN Raise(r.error) /\ i' = i
              ELSE i' = i + 1 /\ pc' = AfterFirstPass(i + 1) /\ error' = error
    /\ UNCHANGED <<inputVars, stdout, _function_map, memoryVars, closed, _dataflow_start,
                   _otf2_system_tree_host, sorted_events>>

\* Lines 124-125: a complete record is left to the second pass.
DeferCompleteEvent ==
    /\ Dispatched({"X"})
    /\ Has(traceEvents[i], "ts") /\ Has(traceEvents[i], "dur")
    /\ i' = i + 1
    /\ pc' = AfterFirstPass(i + 1)
    /\ UNCHANGED <<inputVars, stdout, registryVars, memoryVars, error, closed, sink,
                   _dataflow_start, _otf2_system_tree_host, sorted_events>>

\* Lines 128-129: any other record is printed and passed over.
UnknownEvent ==
    /\ AtRecord
    /\ Truthy(traceEvents[i])
    /\ Has(traceEvents[i], "ph")
    /\ traceEvents[i].ph \notin {"M", "s", "t", "f", "C"}
    /\ ~(traceEvents[i].ph = "X" /\ Has(traceEvents[i], "ts") /\ Has(traceEvents[i], "dur"))
    /\ i' = i + 1
    /\ pc' = AfterFirstPass(i + 1)
    /\ stdout' = Append(stdout, "Unknown event found")
    /\ UNCHANGED <<inputVars, registryVars, memoryVars, error, closed, sink,
                   _dataflow_start, _otf2_system_tree_host, sorted_events>>

\* Lines 132-141.
SplitAndSort ==
    /\ pc = "split"
    /\ IF SplitRaises(traceEvents)
       THEN Raise("TypeError") /\ UNCHANGED <<sorted_events, i>>
       ELSE /\ sorted_events' = SortedByKey(SplitEvents(traceEvents, 1))
            /\ i' = 1
            /\ pc' = IF sorted_events' = <<>> THEN AfterEventTrace ELSE "second_pass"
            /\ error' = error
    /\ UNCHANGED <<inputVars, stdout, registryVars, memoryVars, closed, sink,
                   _dataflow_start, _otf2_system_tree_host>>

\* Lines 142-144 and 260-276: one sub-event of the sorted sequence.
HandleEvent ==
    /\ pc = "second_pass"
    /\ i \in 1..Len(sorted_events)
    /\ LET r == _handle_event(sorted_events[i], sink, _process_map, _function_map)
       IN  /\ sink' = r.sink
           /\ _process_map' = r.map
           /\ _function_map' = r.functions
           /\ IF r.error # ""
              THEN Raise(r.error) /\ i' = i
              ELSE /\ i' = i + 1
                   /\ pc' = IF i + 1 > Len(sorted_events) THEN AfterEventTrace
                            ELSE "second_pass"
                   /\ error' = error
    /\ UNCHANGED <<inputVars, stdout, _metric_map, memoryVars, closed, _dataflow_start,
                   _otf2_system_tree_host, sorted_events>>

\* Line 89: the with-block releases the sink on the way out, whatever the way.
CloseSink ==
    /\ pc = "exit"
    /\ closed' = TRUE
    /\ pc' = "returned"
    /\ UNCHANGED <<inputVars, stdout, registryVars, memoryVars, error, sink, i,
                   _dataflow_start, _otf2_system_tree_host, sorted_events>>

(***************************************************************************)
(* _convert_memory_profile.                                                *)
(***************************************************************************)
\* Where the loop of line 169 goes after allocator k.
AfterAllocator(k) == IF k > Len(memoryData) THEN "final" ELSE "allocator"

\* Lines 100-103: opening or decoding the memory-profile document fails.
MemoryProfileUnreadable ==
    /\ pc = "memory"
    /\ _memory_trace_file = UnreadableFile
    /\ Raise("OSError")
    /\ UNCHANGED <<inputVars, stdout, registryVars, memoryVars, closed, sink, i,
                   _dataflow_start, _otf2_system_tree_host, sorted_events>>

\* Lines 149-167: the location group and the locals; last_leave is set once,
\* before the loop over the allocators.
ConvertMemoryProfile ==
    /\ pc = "memory"
    /\ _memory_trace_file # UnreadableFile
    /\ sink' = Append(sink, Definition("location_group", "TF Memory Allocators", "",
                                       _otf2_system_tree_host))
    /\ memory_activities' = EmptyMap
    /\ otf2_attributes' = EmptyMap
    /\ last_leave' = 0
    /\ a' = 1
    /\ pc' = AfterAllocator(1)
    /\ UNCHANGED <<inputVars, stdout, registryVars, error, closed, i, location, timestamp,
                   _dataflow_start, _otf2_system_tree_host, sorted_events>>

\* The location group of _convert_memory_profile: the first call after the event trace.
MemoryGroup ==
    CHOOSE h \in 1..Len(sink) :
        sink[h].call = "location_group" /\ sink[h].name = "TF Memory Allocators"
        /\ \A g \in (h + 1)..Len(sink) :
              ~(sink[g].call = "location_group" /\ sink[g].name = "TF Memory Allocators")

\* Lines 169-170: the location of the next allocator.
OpenAllocator ==
    /\ pc = "allocator"
    /\ a \in 1..Len(memoryData)
    /\ sink' = Append(sink, Definition("event_writer", memoryData[a].name, "", MemoryGroup))
    /\ location' = Len(sink')
    /\ i' = 1
    /\ IF memoryData[a].snapshots = <<>>
       THEN a' = a + 1 /\ pc' = AfterAllocator(a + 1)
       ELSE a' = a /\ pc' = "snapshot"
    /\ UNCHANGED <<inputVars, stdout, registryVars, error, closed, memory_activities,
                   otf2_attributes, last_leave, timestamp,
                   _dataflow_start, _otf2_system_tree_host, sorted_events>>

\* Lines 172-201: one snapshot of the allocator being walked.
HandleSnapshot ==
    /\ pc = "snapshot"
    /\ a \in 1..Len(memoryData)
    /\ i \in 1..Len(memoryData[a].snapshots)
    /\ LET snapshot == memoryData[a].snapshots[i]
           activity == DictGet(snapshot.activityMetadata, "memoryActivity").text
           s1 == IF activity \notin DOMAIN memory_activities
                 THEN Append(sink, Definition("region", activity, "", 0))
                 ELSE sink
           activities1 == IF activity \notin DOMAIN memory_activities
                          THEN Put(memory_activities, activity, Len(s1))
                          ELSE memory_activities
           event_attributes == DictUpdate(snapshot.activityMetadata,
                                          snapshot.aggregationStats)
           r == AttributeLoop(event_attributes, s1, otf2_attributes, <<>>)
           ts == snapshot.timeOffsetPs \div PsPerNs
           s2 == IF last_leave # 0
                 THEN Append(r.sink, Event("leave", location, ts, last_leave, 0, <<>>, 0))
                 ELSE r.sink
           s3 == Append(s2, Event("enter", location, ts, activities1[activity], 0,
                                  r.event, 0))
       IN  /\ memory_activities' = activities1
           /\ otf2_attributes' = r.attributes
           /\ IF r.error # ""
              THEN /\ Raise(r.error)
                   /\ sink' = r.sink
                   /\ UNCHANGED <<timestamp, last_leave, i, a>>
              ELSE /\ sink' = s3
                   /\ timestamp' = ts
                   /\ last_leave' = activities1[activity]
                   /\ error' = error
                   /\ IF i + 1 > Len(memoryData[a].snapshots)
                      THEN a' = a + 1 /\ i' = 1 /\ pc' = AfterAllocator(a + 1)
                      ELSE a' = a /\ i' = i + 1 /\ pc' = "snapshot"
    /\ UNCHANGED <<inputVars, stdout, registryVars, closed, location,
                   _dataflow_start, _otf2_system_tree_host, sorted_events>>

\* Lines 203-204: the deferred leave, after the loop over all allocators.
FinalLeave ==
    /\ pc = "final"
    /\ sink' = IF last_leave # 0
               THEN Append(sink, Event("leave", location, timestamp, last_leave, 0, <<>>, 0))
               ELSE sink
    /\ pc' = "exit"
    /\ UNCHANGED <<inputVars, stdout, registryVars, memoryVars, error, closed, i,
                   _dataflow_start, _otf2_system_tree_host, sorted_events>>

(***************************************************************************)
(* The steps of a run.                                                     *)
(***************************************************************************)
Next ==
    \/ ConvertTrace
    \/ SkipEmptyEvent
    \/ MissingPhase
    \/ HandleMetadata
    \/ HandleDataflow
    \/ HandleMetric
    \/ DeferCompleteEvent
    \/ UnknownEvent
    \/ SplitAndSort
    \/ HandleEvent
    \/ MemoryProfileUnreadable
    \/ ConvertMemoryProfile
    \/ OpenAllocator
    \/ HandleSnapshot
    \/ FinalLeave
    \/ CloseSink

(***************************************************************************)
(* SpecSeq: the timed-event sequencer.  The document names the processes 1 *)
(* and 2 and then holds complete records on three threads of them, in any  *)
(* order, with any 'ts' and any 'dur', a negative one included.            *)
(***************************************************************************)
\* 'ts' and 'dur' in 1/SubTicks ns: below, at and between whole nanoseconds.
TsValues == {0, 1, SubTicks}
DurValues == {-1, 0, 1, SubTicks}

SeqThreads == {<<1, 1>>, <<1, 2>>, <<2, 1>>}

SeqRecords ==
    {CompleteRecord(th[1], th[2], "f", ts, dur) :
        th \in SeqThreads, ts \in TsValues, dur \in DurValues}

SeqOfLen(S, n) == [1..n -> S]

InitSeq ==
    /\ Init0
    /\ \E n \in 0..MaxSeqEvents : \E xs \in SeqOfLen(SeqRecords, n) :
          traceEvents = <<ProcessNameRecord(1, "P"), ProcessNameRecord(2, "Q")>> \o xs
    /\ memoryData = <<>>
    /\ _memory_trace_file = NoFile

NextSeq ==
    \/ ConvertTrace
    \/ HandleMetadata
    \/ DeferCompleteEvent
    \/ SplitAndSort
    \/ HandleEvent
    \/ CloseSink

SpecSeq == InitSeq /\ [][NextSeq]_vars

(***************************************************************************)
(* Properties of the timed-event sequencer.                                *)
(***************************************************************************)
\* The positions in the log of the enters and leaves of complete records.
TimedCalls == {k \in 1..Len(sink) : sink[k].call \in {"enter", "leave"} /\ sink[k].src # 0}

CallsOf(call, src) == {k \in 1..Len(sink) : sink[k].call = call /\ sink[k].src = src}

CompleteIndices == {k \in 1..Len(traceEvents) : IsComplete(traceEvents[k])}

\* C1: the enters and leaves _convert_event_trace issues are non-decreasing in
\* the converted timestamp over the whole log, whatever location each goes to.
C1_GlobalOrder ==
    \A j, k \in TimedCalls : j < k => sink[j].time <= sink[k].time

\* C1 witness: a finished run of a document whose records are out of order, with
\* enters and leaves on two locations and at different times.
C1_Witness ==
    /\ pc = "returned" /\ error = ""
    /\ Len(traceEvents) = 4
    /\ traceEvents[3].ts > traceEvents[4].ts
    /\ traceEvents[3].dur > 0 /\ traceEvents[4].dur > 0
    /\ Cardinality(TimedCalls) = 4
    /\ \E j, k \in TimedCalls : sink[j].loc # sink[k].loc /\ sink[j].time < sink[k].time

\* C10 as stated: the enter of every complete record is in the log before the
\* leave of that record, for every value of 'dur'.
C10_EnterBeforeLeaveAnyDur ==
    \A k \in 1..Len(sink) :
        (sink[k].call = "leave" /\ sink[k].src # 0)
            => \E j \in 1..(k - 1) : sink[j].call = "enter" /\ sink[j].src = sink[k].src

\* C10 amended: the enter of every complete record whose 'dur' is not negative
\* is in the log before the leave of that record, also when 'dur' is 0 and when
\* records share timestamps.
C10_EnterBeforeLeave ==
    \A k \in 1..Len(sink) :
        (sink[k].call = "leave" /\ sink[k].src # 0 /\ traceEvents[sink[k].src].dur >= 0)
            => \E j \in 1..(k - 1) : sink[j].call = "enter" /\ sink[j].src = sink[k].src

\* C10 witness: a finished run with a record of 'dur' 0 behind a record that
\* ends at the same time.
C10_Witness ==
    /\ pc = "returned" /\ error = ""
    /\ Len(traceEvents) = 4
    /\ traceEvents[4].dur = 0
    /\ traceEvents[3].dur > 0
    /\ traceEvents[3].ts + traceEvents[3].dur = traceEvents[4].ts
    /\ CallsOf("leave", 4) # {}

(***************************************************************************)
(* SpecReg: the entity registry.  The document holds process_name,         *)
(* thread_name, 'Allocated Bytes' counter and complete records on the pids *)
(* and tids 0 and 1, in any order.                                         *)
(***************************************************************************)
RegPids == {0, 1}
RegTids == {0, 1}

RegRecords ==
    {ProcessNameRecord(pid, "P") : pid \in RegPids}
    \cup {ThreadNameRecord(pid, tid, "T") : pid \in RegPids, tid \in RegTids}
    \cup {CounterRecord("Allocated Bytes", pid, tid, 1, 5) : pid \in RegPids, tid \in RegTids}
    \cup {CompleteRecord(pid, tid, "f", 0, SubTicks) : pid \in RegPids, tid \in RegTids}

InitReg ==
    /\ Init0
    /\ \E n \in 0..MaxRegEvents : traceEvents \in SeqOfLen(RegRecords, n)
    /\ memoryData = <<>>
    /\ _memory_trace_file = NoFile

NextReg ==
    \/ ConvertTrace
    \/ HandleMetadata
    \/ HandleMetric
    \/ DeferCompleteEvent
    \/ SplitAndSort
    \/ HandleEvent
    \/ CloseSink

SpecReg == InitReg /\ [][NextReg]_vars

(***************************************************************************)
(* SpecSkip: the event classifier.  Behind a process_name record for       *)
(* process 1 the document holds valid records on thread (1, 1) and records *)
(* that match no handler.                                                  *)
(***************************************************************************)
NoPhaseRecord == Record({"name", "pid", "tid"}, "", "g", 1, 1, 0, 0, 0, "", 0)
UnknownPhaseRecord == Record({"ph", "name", "pid", "tid", "ts"}, "B", "g", 1, 1, 0, 0, 0, "", 0)
NoDurRecord == Record({"ph", "name", "pid", "tid", "ts"}, "X", "g", 1, 1, 0, 0, 0, "", 0)
UnknownMetadataRecord == Record({"ph", "name", "pid", "args"}, "M", "process_labels", 1, 0, 0, 0, 0, "l", 0)

\* The records that match no handler.
Unrecognized(event) ==
    \/ ~Truthy(event)
    \/ ~Has(event, "ph")
    \/ event.ph \notin {"M", "s", "t", "f", "C", "X"}

SkipRecords ==
    {EmptyRecord, NullRecord, NoPhaseRecord, UnknownPhaseRecord, NoDurRecord,
     UnknownMetadataRecord,
     CompleteRecord(1, 1, "f", 0, SubTicks),
     CounterRecord("Allocated Bytes", 1, 1, 1, 5),
     CounterRecord("Other", 1, 1, 1, 5)}

InitSkip ==
    /\ Init0
    /\ \E n \in 0..MaxSkipEvents : \E xs \in SeqOfLen(SkipRecords, n) :
          traceEvents = <<ProcessNameRecord(1, "P")>> \o xs
    /\ memoryData = <<>>
    /\ _memory_trace_file = NoFile

NextSkip ==
    \/ ConvertTrace
    \/ SkipEmptyEvent
    \/ MissingPhase
    \/ HandleMetadata
    \/ HandleMetric
    \/ DeferCompleteEvent
    \/ UnknownEvent
    \/ SplitAndSort
    \/ HandleEvent
    \/ CloseSink

SpecSkip == InitSkip /\ [][NextSkip]_vars

(***************************************************************************)
(* Properties of the registry and of the classifier.                       *)
(***************************************************************************)
IsCounter(event) ==
    Truthy(event) /\ Has(event, "ph") /\ event.ph = "C" /\ event.name = "Allocated Bytes"

IsThreadName(event) ==
    Truthy(event) /\ Has(event, "ph") /\ event.ph = "M"
    /\ Has(event, "name") /\ event.name = "thread_name"

\* The first pass has handled record k without an exception.
Handled(k) ==
    \/ pc = "first_pass" /\ k < i
    \/ pc \in {"split", "second_pass", "memory", "allocator", "snapshot", "final"}
    \/ pc \in {"exit", "returned"} /\ error \notin {"KeyError", "AssertionError"}
    \/ pc \in {"exit", "returned"} /\ sorted_events # <<>>
    \/ pc \in {"exit", "returned"} /\ k < i

Registered(pid, tid) ==
    pid \in DOMAIN _process_map /\ tid \in DOMAIN _process_map[pid].threads

\* C2: when the run has returned (other than by a duplicate thread declaration),
\* every complete record has exactly one enter and one leave in the log, the
\* enter not later than the leave, both on the location of the record's pid/tid
\* and both with the region handle of the record's name.
C2_OnePairPerRecord ==
    (pc = "returned" /\ error # "AssertionError") =>
        \A k \in CompleteIndices :
            \E e \in CallsOf("enter", k) : \E l \in CallsOf("leave", k) :
                /\ CallsOf("enter", k) = {e}
                /\ CallsOf("leave", k) = {l}
                /\ sink[e].time <= sink[l].time
                /\ sink[e].loc = sink[l].loc
                /\ sink[e].loc = _process_map[traceEvents[k].pid].threads[traceEvents[k].tid]
                /\ sink[e].ref = sink[l].ref
                /\ sink[e].ref = _function_map[traceEvents[k].name]

\* The location_group calls the sink received for a pid (the names end in the pid).
GroupCalls(pid) ==
    {h \in 1..Len(sink) :
        /\ sink[h].call = "location_group"
        /\ sink[h].name \in {"P " \o ToString(pid), "T " \o ToString(pid)}}

\* C5: for every registered pid the sink has received exactly one
\* location_group call, and it is the handle the registry holds for the pid.
C5_OneGroupPerPid ==
    \A pid \in DOMAIN _process_map : GroupCalls(pid) = {_process_map[pid].group}

\* C6: a complete record or an 'Allocated Bytes' counter record on a pid or tid
\* no metadata record introduced does not fail; once a counter record is
\* handled its thread is registered and its sample is on that thread's location.
C6_LazyCreation ==
    /\ error # "KeyError"
    /\ \A k \in 1..Len(traceEvents) :
          (IsCounter(traceEvents[k]) /\ Handled(k)) =>
              /\ Registered(traceEvents[k].pid, traceEvents[k].tid)
              /\ \E h \in 1..Len(sink) :
                    /\ sink[h].call = "metric_sample"
                    /\ sink[h].loc = _process_map[traceEvents[k].pid].threads[traceEvents[k].tid]

\* C7: a record that matches no handler does not abort the run: the run returns
\* without an exception, and every complete record and every recognized counter
\* record of the document has its calls in the log.
C7_UnrecognizedSkipped ==
    pc = "returned" =>
        /\ error = ""
        /\ \A k \in CompleteIndices :
              Cardinality(CallsOf("enter", k)) = 1 /\ Cardinality(CallsOf("leave", k)) = 1
        /\ Cardinality({h \in 1..Len(sink) : sink[h].call = "metric_sample"})
              = Cardinality({k \in 1..Len(traceEvents) : IsCounter(traceEvents[k])})

\* The first pass is at a thread_name record whose (pid, tid) is in the registry.
AtDuplicateDeclaration ==
    /\ AtRecord
    /\ IsThreadName(traceEvents[i])
    /\ Registered(traceEvents[i].pid, traceEvents[i].tid)

DuplicateRejected ==
    /\ error' = "AssertionError"
    /\ sink' = sink
    /\ _process_map' = _process_map

\* C8 as stated: a thread_name record for a (pid, tid) in the registry raises the
\* duplicate-thread error, creates no location and leaves the registry
\* unchanged, for every pid and tid, pid = 0 and tid = 0 included.
C8_DuplicateRejectedAnyIds ==
    [][AtDuplicateDeclaration => DuplicateRejected]_vars

\* C8 amended: the same, except for the record with both pid = 0 and tid = 0.
C8_DuplicateRejected ==
    [][(AtDuplicateDeclaration /\ ~(traceEvents[i].pid = 0 /\ traceEvents[i].tid = 0))
          => DuplicateRejected]_vars

\* C8 witness: the run was ended by the thread_name record of a thread that a
\* counter record had created lazily.
C8_Witness ==
    /\ pc = "exit" /\ error = "AssertionError"
    /\ IsThreadName(traceEvents[i])
    /\ \E k \in 1..(i - 1) :
          /\ IsCounter(traceEvents[k])
          /\ traceEvents[k].pid = traceEvents[i].pid
          /\ traceEvents[k].tid = traceEvents[i].tid
    /\ \A k \in 1..(i - 1) : ~IsThreadName(traceEvents[k])

(***************************************************************************)
(* SpecMem: the memory-profile merger.  The event trace is empty; the      *)
(* memory-profile document holds up to MaxAllocators allocators with up to *)
(* MaxSnapshots snapshots each.                                            *)
(***************************************************************************)
AllocatorNames == <<"gpu_0", "cpu_0", "gpu_1", "cpu_1">>

MemSnapshot(activity, ps) ==
    Snapshot(activity,
             <<[key |-> "requestedBytes", value |-> NumStrValue(4)]>>,
             <<[key |-> "peakBytesInUse", value |-> IntValue(8)]>>,
             ps)

MemSnapshots(activities, times) ==
    {MemSnapshot(activity, ps) : activity \in activities, ps \in times}

SnapshotLists(S) == UNION {SeqOfLen(S, n) : n \in 0..MaxSnapshots}

\* The documents of at most m allocators with snapshots of S.
MemoryDocuments(S, m) ==
    UNION {{[k \in 1..n |-> [name |-> AllocatorNames[k], snapshots |-> ss[k]]] :
               ss \in [1..n -> SnapshotLists(S)]} : n \in 0..m}

InitMem ==
    /\ Init0
    /\ traceEvents = <<>>
    /\ memoryData \in MemoryDocuments(MemSnapshots({"alloc", "dealloc"}, {0, 1500, 2000}),
                                      MaxAllocators)
    /\ _memory_trace_file = ProfileFile

NextMem ==
    \/ ConvertTrace
    \/ SplitAndSort
    \/ ConvertMemoryProfile
    \/ OpenAllocator
    \/ HandleSnapshot
    \/ FinalLeave
    \/ CloseSink

SpecMem == InitMem /\ [][NextMem]_vars

(***************************************************************************)
(* SpecFull: both documents in one run.  The event trace names process 1   *)
(* and holds complete records on thread (1, 1); the memory profile holds   *)
(* one allocator; both draw their names from the same set.                 *)
(***************************************************************************)
FullNames == {"f", "alloc"}

InitFull ==
    /\ Init0
    /\ \E n \in 0..MaxFullEvents :
          \E xs \in SeqOfLen({CompleteRecord(1, 1, name, 0, SubTicks) : name \in FullNames}, n) :
              traceEvents = <<ProcessNameRecord(1, "P")>> \o xs
    /\ memoryData \in MemoryDocuments(MemSnapshots(FullNames, {0, 2000}), 1)
    /\ _memory_trace_file = ProfileFile

NextFull ==
    \/ ConvertTrace
    \/ HandleMetadata
    \/ DeferCompleteEvent
    \/ SplitAndSort
    \/ HandleEvent
    \/ ConvertMemoryProfile
    \/ OpenAllocator
    \/ HandleSnapshot
    \/ FinalLeave
    \/ CloseSink

SpecFull == InitFull /\ [][NextFull]_vars

(***************************************************************************)
(* Properties of the memory-profile merger.                                *)
(***************************************************************************)
\* The location of an allocator: the event_writer call with its name.
AllocatorLocation(name) ==
    CHOOSE h \in 1..Len(sink) : sink[h].call = "event_writer" /\ sink[h].name = name

\* The calls of one kind on one location, in the order of the log.
LocationCalls(call, loc) ==
    LET Wanted(c) == c.call = call /\ c.loc = loc
    IN  SelectSeq(sink, Wanted)

SnapshotTime(snapshot) == snapshot.timeOffsetPs \div PsPerNs

\* C3: when the run has returned, every allocator with N snapshots has on its
\* location exactly N enters and N leaves, the enter of snapshot j at the time
\* of snapshot j, the leave of snapshot j at the time of the enter of snapshot
\* j + 1, and the last leave at the time of the last snapshot.
C3_CoalescedPerAllocator ==
    pc = "returned" =>
        \A k \in 1..Len(memoryData) :
            LET N == Len(memoryData[k].snapshots)
                enters == LocationCalls("enter", AllocatorLocation(memoryData[k].name))
                leaves == LocationCalls("leave", AllocatorLocation(memoryData[k].name))
            IN  /\ Len(enters) = N
                /\ Len(leaves) = N
                /\ \A j \in 1..N :
                      /\ enters[j].time = SnapshotTime(memoryData[k].snapshots[j])
                      /\ leaves[j].time = IF j < N THEN enters[j + 1].time ELSE enters[N].time

\* C4: in every state, a leave on an allocator's location closes the region
\* most recently entered on that same location (so the first call on the
\* location is an enter, and no leave belongs to another allocator's region).
C4_LeaveClosesOwnEnter ==
    \A k \in 1..Len(sink) :
        (sink[k].call = "leave" /\ sink[k].src = 0) =>
            \E j \in 1..(k - 1) :
                /\ sink[j].call = "enter"
                /\ sink[j].loc = sink[k].loc
                /\ sink[j].ref = sink[k].ref
                /\ \A m \in (j + 1)..(k - 1) :
                      ~(sink[m].call = "enter" /\ sink[m].loc = sink[k].loc)

\* The region creation calls the sink received for a name.
RegionCalls(name) == {h \in 1..Len(sink) : sink[h].call = "region" /\ sink[h].name = name}

\* C9: over the run of both documents the sink receives at most one region
\* creation call per name, and every enter and leave refers to a region by the
\* one handle of its name.
C9_OneRegionPerName ==
    /\ \A h \in 1..Len(sink) :
          sink[h].call = "region" => RegionCalls(sink[h].name) = {h}
    /\ \A j, k \in 1..Len(sink) :
          (sink[j].call \in {"enter", "leave"} /\ sink[k].call \in {"enter", "leave"}
           /\ sink[sink[j].ref].name = sink[sink[k].ref].name)
              => sink[j].ref = sink[k].ref

(***************************************************************************)
(* SpecFlow: the flow events.  The document is a sequence of 's', 't' and  *)
(* 'f' records with correlation ids 1 and 2.                               *)
(***************************************************************************)
MaxFlowEvents == 3
FlowIds == {1, 2}

FlowRecords == {FlowRecord(ph, id) : ph \in {"s", "t", "f"}, id \in FlowIds}

InitFlow ==
    /\ Init0
    /\ \E n \in 0..MaxFlowEvents : traceEvents \in SeqOfLen(FlowRecords, n)
    /\ memoryData = <<>>
    /\ _memory_trace_file = NoFile

NextFlow ==
    \/ ConvertTrace
    \/ HandleDataflow
    \/ SplitAndSort
    \/ CloseSink

SpecFlow == InitFlow /\ [][NextFlow]_vars

\* The number of records the first pass has handled.
FirstPassDone ==
    IF pc = "init" THEN 0
    ELSE IF pc = "first_pass" THEN i - 1
    ELSE Len(traceEvents)

\* The specified machine {Idle, Pending(id)}, Idle written NoFlow and
\* Pending(id) written id: the states it may be in behind one more flow event.
\* An 's' while Pending is reported, and the state behind it is not specified.
FlowStep(states, event) ==
    IF event.ph = "s"
    THEN (IF NoFlow \in states THEN {event.id} ELSE {})
         \cup (IF states \ {NoFlow} # {} THEN {NoFlow} \cup FlowIds ELSE {})
    ELSE {NoFlow}

RECURSIVE FlowStates(_)
FlowStates(k) == IF k = 0 THEN {NoFlow} ELSE FlowStep(FlowStates(k - 1), traceEvents[k])

\* C11: behind each flow event _dataflow_start is a state of the specified
\* machine: 's' in Idle gives Pending(id), and 't' and 'f' give Idle, with the
\* pending id or without it.
C11_DataflowMachine == _dataflow_start \in FlowStates(FirstPassDone)

(***************************************************************************)
(* SpecRun: a whole run.  Behind a process_name record for process 1 the   *)
(* event trace holds process_name, thread_name, counter and complete       *)
(* records on the threads (1, 1) and (1, 2); the memory-profile document   *)
(* is absent or holds up to two allocators.                                *)
(***************************************************************************)
MaxRunEvents == 2

RunRecords ==
    {ProcessNameRecord(1, "Q"),
     ThreadNameRecord(1, 1, "T"),
     CounterRecord("Allocated Bytes", 1, 1, 1, 5),
     CompleteRecord(1, 1, "f", 0, SubTicks),
     CompleteRecord(1, 2, "alloc", SubTicks, SubTicks)}

RunSnapshotLists ==
    {<<>>,
     <<MemSnapshot("alloc", 0)>>,
     <<MemSnapshot("alloc", 0), MemSnapshot("f", 2000)>>,
     <<MemSnapshot("f", 0), MemSnapshot("f", 2000)>>}

\* The documents of at most two allocators, each with one of these lists.
RunDocuments ==
    UNION {{[k \in 1..n |-> [name |-> AllocatorNames[k], snapshots |-> ss[k]]] :
               ss \in [1..n -> RunSnapshotLists]} : n \in 0..2}

InitRun ==
    /\ Init0
    /\ \E n \in 0..MaxRunEvents : \E xs \in SeqOfLen(RunRecords, n) :
          traceEvents = <<ProcessNameRecord(1, "P")>> \o xs
    /\ \/ _memory_trace_file = NoFile /\ memoryData = <<>>
       \/ _memory_trace_file = ProfileFile
          /\ memoryData \in RunDocuments

NextRun ==
    \/ ConvertTrace
    \/ HandleMetadata
    \/ HandleMetric
    \/ DeferCompleteEvent
    \/ SplitAndSort
    \/ HandleEvent
    \/ ConvertMemoryProfile
    \/ OpenAllocator
    \/ HandleSnapshot
    \/ FinalLeave
    \/ CloseSink

SpecRun == InitRun /\ [][NextRun]_vars

\* The handles a registry mapping holds.
Handles(map) == {map[k] : k \in DOMAIN map}

\* The locations of the threads in _process_map.
ThreadHandles == UNION {Handles(_process_map[pid].threads) : pid \in DOMAIN _process_map}

\* The event_writer calls under the location group of the memory profile.
AllocatorLocations ==
    {h \in 1..Len(sink) : /\ sink[h].call = "event_writer"
                          /\ sink[sink[h].parent].name = "TF Memory Allocators"}

EventCalls == {h \in 1..Len(sink) : sink[h].call \in {"enter", "leave", "metric_sample"}}

\* Call h refers to a region, metric and attributes that were created earlier
\* in the log and are in _function_map or memory_activities, in _metric_map
\* and in otf2_attributes.
ReferencesRegistered(h) ==
    /\ sink[h].ref < h
    /\ sink[sink[h].ref].call = (IF sink[h].call = "metric_sample" THEN "metric" ELSE "region")
    /\ sink[h].ref \in (IF sink[h].call = "metric_sample" THEN Handles(_metric_map)
                        ELSE Handles(_function_map) \cup Handles(memory_activities))
    /\ \A k \in 1..Len(sink[h].attrs) :
          /\ sink[h].attrs[k].key < h
          /\ sink[sink[h].attrs[k].key].call = "attribute"
          /\ sink[h].attrs[k].key \in Handles(otf2_attributes)

LocationCreated(h) == sink[h].loc < h /\ sink[sink[h].loc].call = "event_writer"

\* C12 as stated: every enter, leave and metric call in the log refers to a
\* location, a region or metric and attributes that were created earlier in
\* the log and are held by the registry mapping of their kind, the location by
\* _process_map.
C12_HandlesRegisteredAnyLocation ==
    \A h \in EventCalls :
        LocationCreated(h) /\ ReferencesRegistered(h) /\ sink[h].loc \in ThreadHandles

\* C12 amended: every enter, leave and metric call in the log refers to a
\* location, a region or metric and attributes that were created earlier in
\* the log; the region or metric and the attributes are held by the registry
\* mapping of their kind, and so is the location unless it is the location of
\* an allocator.
C12_HandlesRegistered ==
    \A h \in EventCalls :
        /\ LocationCreated(h)
        /\ ReferencesRegistered(h)
        /\ sink[h].loc \in ThreadHandles \cup AllocatorLocations

\* C12 witness: a finished run with a metric call, an enter of a complete
\* record and an enter of a snapshot with attributes in the log.
C12_Witness ==
    /\ pc = "returned" /\ error = ""
    /\ \E h \in EventCalls : sink[h].call = "metric_sample"
    /\ \E h \in EventCalls : sink[h].call = "enter" /\ sink[h].src # 0
    /\ \E h \in EventCalls : sink[h].call = "enter" /\ sink[h].attrs # <<>>
                             /\ sink[h].loc \in AllocatorLocations

\* The creation calls of one kind the sink received for a name.
CreationCalls(call, name) ==
    {h \in 1..Len(sink) : sink[h].call = call /\ sink[h].name = name}

\* The event_writer calls for threads, and the (pid, tid) pairs of the registry.
ThreadLocations ==
    {h \in 1..Len(sink) : sink[h].call = "event_writer"} \ AllocatorLocations

RegisteredThreads ==
    {pt \in (DOMAIN _process_map) \X {1, 2} : Registered(pt[1], pt[2])}

\* The attribute keys of the snapshots the merger has walked.
RECURSIVE KeysOf(_)
KeysOf(snapshots) ==
    IF snapshots = <<>> THEN {}
    ELSE DictKeys(Head(snapshots).activityMetadata)
         \cup DictKeys(Head(snapshots).aggregationStats)
         \cup KeysOf(Tail(snapshots))

DocumentKeys == UNION {KeysOf(memoryData[k].snapshots) : k \in 1..Len(memoryData)}

\* C13: the sink has received one event_writer call per (pid, tid) of the
\* registry and no other for a thread, one metric call for 'Allocated Bytes'
\* when a counter record of that name was handled and none otherwise, at most
\* one attribute call per key, and, when the run has returned without an
\* exception, exactly one attribute call per key of the memory-profile document.
C13_CreatedOnce ==
    /\ Cardinality(ThreadLocations) = Cardinality(RegisteredThreads)
    /\ ThreadLocations = ThreadHandles
    /\ Cardinality(CreationCalls("metric", "Allocated Bytes"))
          = IF \E k \in 1..Len(traceEvents) : IsCounter(traceEvents[k]) /\ Handled(k)
            THEN 1 ELSE 0
    /\ \A h \in 1..Len(sink) :
          sink[h].call = "attribute" => CreationCalls("attribute", sink[h].name) = {h}
    /\ (pc = "returned" /\ error = "") =>
          \A key \in DocumentKeys : Cardinality(CreationCalls("attribute", key)) = 1

\* C13 witness: a finished run in which two counter records used one thread
\* and one metric, and two snapshots used the same attribute keys.
C13_Witness ==
    /\ pc = "returned" /\ error = ""
    /\ Cardinality({k \in 1..Len(traceEvents) : IsCounter(traceEvents[k])}) = 2
    /\ Cardinality({h \in 1..Len(sink) : sink[h].call = "metric_sample"}) = 2
    /\ \E k \in 1..Len(memoryData) : Len(memoryData[k].snapshots) = 2
    /\ Cardinality(DocumentKeys) = 3

(***************************************************************************)
(* SpecScenario: one process_name record, one thread_name record of that   *)
(* process and complete records on that thread.  The timestamps are whole  *)
(* nanoseconds: 10.0 + 5.0, 1.001 + 0, 1.0 + 0.5 and 1.0 + 0.001           *)
(* microseconds.                                                           *)
(***************************************************************************)
MaxScenarioEvents == 2

\* <<ts, dur>> in 1/SubTicks ns.
ScenarioTimes ==
    {<<10000 * SubTicks, 5000 * SubTicks>>, <<1001 * SubTicks, 0>>,
     <<1000 * SubTicks, 500 * SubTicks>>, <<1000 * SubTicks, SubTicks>>}

ScenarioRecords(pid, tid) ==
    {CompleteRecord(pid, tid, name, td[1], td[2]) : name \in {"f", "g"}, td \in ScenarioTimes}

InitScenario ==
    /\ Init0
    /\ \E pid \in {1, 2}, tid \in {1, 2}, n \in 0..MaxScenarioEvents :
          \E xs \in SeqOfLen(ScenarioRecords(pid, tid), n) :
              traceEvents = <<ProcessNameRecord(pid, "P"), ThreadNameRecord(pid, tid, "T")>>
                            \o xs
    /\ memoryData = <<>>
    /\ _memory_trace_file = NoFile

NextScenario ==
    \/ ConvertTrace
    \/ HandleMetadata
    \/ DeferCompleteEvent
    \/ SplitAndSort
    \/ HandleEvent
    \/ CloseSink

SpecScenario == InitScenario /\ [][NextScenario]_vars

\* A timestamp of whole nanoseconds, in nanoseconds.
Nanoseconds(t) == t \div SubTicks

\* C14: when the run over a process_name record (p, n), a thread_name record
\* (p, t, m) and complete records on (p, t) has returned, the sink has received
\* one location group, named "n p", one location, named "m t" and under that
\* group, one region per distinct record name, and for each record one enter
\* at ts * 1000 and one leave at (ts + dur) * 1000 nanoseconds.
C14_Scenario ==
    pc = "returned" =>
        LET p == traceEvents[1].pid
            tid == traceEvents[2].tid
            groups == {h \in 1..Len(sink) : sink[h].call = "location_group"}
            locations == {h \in 1..Len(sink) : sink[h].call = "event_writer"}
        IN  /\ error = ""
            /\ Cardinality(groups) = 1
            /\ \A g \in groups : sink[g].name = traceEvents[1].argsName \o " " \o ToString(p)
            /\ Cardinality(locations) = 1
            /\ \A h \in locations :
                  /\ sink[h].name = traceEvents[2].argsName \o " " \o ToString(tid)
                  /\ sink[h].parent \in groups
            /\ \A k \in CompleteIndices :
                  /\ Cardinality(CreationCalls("region", traceEvents[k].name)) = 1
                  /\ \E h \in CallsOf("enter", k) :
                        /\ CallsOf("enter", k) = {h}
                        /\ sink[h].time = Nanoseconds(traceEvents[k].ts)
                  /\ \E h \in CallsOf("leave", k) :
                        /\ CallsOf("leave", k) = {h}
                        /\ sink[h].time = Nanoseconds(traceEvents[k].ts + traceEvents[k].dur)
            /\ Cardinality({h \in 1..Len(sink) : sink[h].call = "region"})
                  = Cardinality({traceEvents[k].name : k \in CompleteIndices})

(***************************************************************************)
(* SpecTime: the two time conversions.  The event trace holds one complete *)
(* record whose 'ts' is a whole number of nanoseconds; the memory-profile  *)
(* document holds one snapshot.                                            *)
(***************************************************************************)
\* 'ts' in nanoseconds: 0.995 to 1.030, 10.0 and 1000.123 microseconds.
TimeNanoseconds == (995..1030) \cup {10000, 1000123}

TimePicoseconds == {0, 999, 1000, 1999, 1500000}

InitTime ==
    /\ Init0
    /\ \E ns \in TimeNanoseconds :
          traceEvents = <<ProcessNameRecord(1, "P"),
                          CompleteRecord(1, 1, "f", ns * SubTicks, 0)>>
    /\ \E ps \in TimePicoseconds :
          memoryData = <<[name |-> AllocatorNames[1],
                          snapshots |-> <<MemSnapshot("alloc", ps)>>]>>
    /\ _memory_trace_file = ProfileFile

SpecTime == InitTime /\ [][NextFull]_vars

\* C15: the enter of a complete record whose 'ts' has up to 3 decimal digits
\* is at round(ts * 1000), the exact number of nanoseconds, and the enter of a
\* memory snapshot is at timeOffsetPs divided by 1000, truncated.
C15_ExactNanoseconds ==
    \A h \in 1..Len(sink) :
        sink[h].call = "enter" =>
            IF sink[h].src # 0
            THEN sink[h].time = Nanoseconds(traceEvents[sink[h].src].ts)
            ELSE sink[h].time = memoryData[1].snapshots[1].timeOffsetPs \div PsPerNs

(***************************************************************************)
(* SpecExit: the exit paths of convert_trace.  Behind a process_name       *)
(* record for process 1 the event trace holds records that fail in the     *)
(* first pass (a second thread_name record, a counter record without       *)
(* 'args') or in the second (a complete record of the undeclared process   *)
(* 2); the memory-profile document is absent, unreadable, or holds one     *)
(* allocator whose snapshots may carry a value int() rejects.              *)
(***************************************************************************)
MaxExitEvents == 2

NoArgsCounterRecord ==
    Record({"ph", "name", "pid", "tid", "ts"}, "C", "Allocated Bytes", 1, 1, 1, 0, 0, "", 0)

ExitRecords ==
    {ThreadNameRecord(1, 1, "T"),
     NoArgsCounterRecord,
     CompleteRecord(1, 1, "f", 0, SubTicks),
     CompleteRecord(2, 1, "f", 0, SubTicks)}

ExitSnapshots ==
    {MemSnapshot("alloc", 0),
     Snapshot("alloc", <<[key |-> "address", value |-> StrValue("n/a")]>>, <<>>, 2000)}

InitExit ==
    /\ Init0
    /\ \E n \in 0..MaxExitEvents : \E xs \in SeqOfLen(ExitRecords, n) :
          traceEvents = <<ProcessNameRecord(1, "P")>> \o xs
    /\ \/ _memory_trace_file \in {NoFile, UnreadableFile} /\ memoryData = <<>>
       \/ _memory_trace_file = ProfileFile
          /\ memoryData \in MemoryDocuments(ExitSnapshots, 1)

NextExit ==
    \/ ConvertTrace
    \/ HandleMetadata
    \/ HandleMetric
    \/ DeferCompleteEvent
    \/ SplitAndSort
    \/ HandleEvent
    \/ MemoryProfileUnreadable
    \/ ConvertMemoryProfile
    \/ OpenAllocator
    \/ HandleSnapshot
    \/ FinalLeave
    \/ CloseSink

SpecExit == InitExit /\ [][NextExit]_vars

\* The log s is kept in the log s1.
KeptIn(s, s1) == Len(s) <= Len(s1) /\ \A k \in 1..Len(s) : s1[k] = s[k]

\* C16: when control returns to the caller of convert_trace the sink is
\* closed, with or without an exception, and no step of the run, the failing
\* step and the closing step included, takes back a call the sink received.
C16_ClosedOnEveryExit ==
    [][(pc' = "returned" => closed') /\ KeptIn(sink, sink')]_vars

\* C16 witness: the run has returned with the exception of the unreadable
\* memory-profile document, the sink closed and the enter and the leave of a
\* complete record in the log.
C16_Witness ==
    /\ pc = "returned" /\ closed
    /\ error = "OSError"
    /\ Cardinality(TimedCalls) = 2

(***************************************************************************)
(* The order of sub-events of one sort key (SpecSeq).                      *)
(***************************************************************************)
\* The sort key of the sub-event behind an enter or a leave of the log.
CallKey(h) ==
    traceEvents[sink[h].src].ts
        + (IF sink[h].call = "leave" THEN traceEvents[sink[h].src].dur ELSE 0)

\* The sub-event of call j was appended before the sub-event of call k.
AppendedBefore(j, k) ==
    \/ sink[j].src < sink[k].src
    \/ sink[j].src = sink[k].src /\ sink[j].call = "enter" /\ sink[k].call = "leave"

\* C17: two enters or leaves of complete records whose sub-events have the
\* same sort key (ts for an enter, ts + dur for a leave) are in the log in the
\* order in which the sub-events were appended: record by record in the order
\* of the document, the enter of a record before its leave.
C17_TiesInAppendOrder ==
    \A j, k \in TimedCalls :
        (j < k /\ CallKey(j) = CallKey(k)) => AppendedBefore(j, k)

\* C17 witness: a finished run of two records, the second of 'dur' 0, where
\* the leave of the first and the enter and the leave of the second share one
\* sort key.
C17_Witness ==
    /\ pc = "returned" /\ error = ""
    /\ Len(traceEvents) = 4
    /\ traceEvents[3].dur > 0 /\ traceEvents[4].dur = 0
    /\ \E j \in CallsOf("leave", 3), k \in CallsOf("enter", 4), m \in CallsOf("leave", 4) :
          CallKey(j) = CallKey(k) /\ CallKey(k) = CallKey(m) /\ j < k /\ k < m

(***************************************************************************)
(* The thread_name record of a system process (SpecReg).                   *)
(***************************************************************************)
\* The first pass is at a thread_name record with pid = 0 and tid = 0.
AtSystemThreadName ==
    /\ AtRecord
    /\ IsThreadName(traceEvents[i])
    /\ traceEvents[i].pid = 0 /\ traceEvents[i].tid = 0

\* C18: handling a thread_name record with pid = 0 and tid = 0 leaves
\* _process_map with its threads and the log of the sink unchanged and raises
\* nothing, whatever the registry holds.
C18_SystemThreadIgnored ==
    [][AtSystemThreadName
          => (_process_map' = _process_map /\ sink' = sink /\ error' = "")]_vars

\* C18 witness: the record was handled behind a counter record that had
\* created the thread (0, 0), and the first pass went on.
C18_Witness ==
    /\ pc \in {"first_pass", "split"} /\ error = ""
    /\ i = 4
    /\ IsThreadName(traceEvents[3])
    /\ traceEvents[3].pid = 0 /\ traceEvents[3].tid = 0
    /\ Registered(0, 0)

(***************************************************************************)
(* SpecAttr: the attributes of the memory profile.  One allocator; every   *)
(* snapshot carries one more key, in or out of the allow-list, with a      *)
(* string, a string that spells a number, an integer or a float.           *)
(***************************************************************************)
AttrKeys == {"requestedBytes", "stepId", "regionType"}

AttrValues == {StrValue("n/a"), NumStrValue(4), IntValue(4), FloatValue(4)}

AttrSnapshots ==
    {Snapshot("alloc", <<[key |-> key, value |-> value]>>, <<>>, 0) :
        key \in AttrKeys, value \in AttrValues}

InitAttr ==
    /\ Init0
    /\ traceEvents = <<>>
    /\ memoryData \in MemoryDocuments(AttrSnapshots, 1)
    /\ _memory_trace_file = ProfileFile

SpecAttr == InitAttr /\ [][NextMem]_vars

AllowList ==
    {"stackReservedBytes", "heapAllocatedBytes", "freeMemoryBytes", "peakBytesInUse",
     "requestedBytes", "allocationBytes", "address", "stepId"}

\* The first value the document gives for a key.
FirstValue(key) ==
    LET snapshots == memoryData[1].snapshots
        first == CHOOSE k \in 1..Len(snapshots) :
                    /\ key \in DictKeys(snapshots[k].activityMetadata)
                    /\ \A j \in 1..(k - 1) : key \notin DictKeys(snapshots[j].activityMetadata)
    IN  DictGet(snapshots[first].activityMetadata, key)

\* C19: every attribute the sink is asked for has the type UINT64 when its key
\* is in the allow-list and the type STRING when it is not, whether the first
\* value of the key is a string, an integer or a float.
C19_TypeByAllowList ==
    \A h \in 1..Len(sink) :
        sink[h].call = "attribute" =>
            sink[h].type = (IF sink[h].name \in AllowList THEN "UINT64" ELSE "STRING")

\* C19 witness: a finished run that declared a key out of the allow-list whose
\* first value is a float, and a key of the allow-list whose first value is a
\* string.
C19_Witness ==
    /\ pc = "returned" /\ error = ""
    /\ CreationCalls("attribute", "regionType") # {}
    /\ FirstValue("regionType").t = "float"
    /\ CreationCalls("attribute", "stepId") # {}
    /\ FirstValue("stepId").t = "str"

(***************************************************************************)
(* The values under the integer attributes (SpecMem).                      *)
(***************************************************************************)
\* C20: in every enter of a snapshot, of the first and of every later one, the
\* value under an attribute declared as UINT64 is an integer.
C20_IntegerUnderUint ==
    \A h \in 1..Len(sink) :
        sink[h].call = "enter" =>
            \A k \in 1..Len(sink[h].attrs) :
                sink[sink[h].attrs[k].key].type = "UINT64"
                    => sink[h].attrs[k].value.t = "int"

(***************************************************************************)
(* The location group of the threads (SpecReg).                            *)
(***************************************************************************)
\* C21: every thread location of _process_map was created under the location
\* group _process_map holds for its process, also when a process_name record
\* arrives behind the threads of its pid.
C21_ThreadsUnderCurrentGroup ==
    \A pid \in DOMAIN _process_map :
        \A tid \in DOMAIN _process_map[pid].threads :
            sink[_process_map[pid].threads[tid]].parent = _process_map[pid].group

(***************************************************************************)
(* SpecOrder: counter and complete records on one process.  Behind a       *)
(* process_name record for process 1 the document holds 'Allocated Bytes'  *)
(* counter records and complete records on the threads (1, 1) and (1, 2)   *)
(* at 0, 1 and 2 nanoseconds, in any order.                                *)
(***************************************************************************)
MaxOrderEvents == 2

OrderTimes == {0, SubTicks, 2 * SubTicks}

OrderRecords ==
    {CounterRecord("Allocated Bytes", 1, tid, ts, 5) : tid \in {1, 2}, ts \in OrderTimes}
    \cup {CompleteRecord(1, tid, "f", ts, SubTicks) : tid \in {1, 2}, ts \in OrderTimes}

InitOrder ==
    /\ Init0
    /\ \E n \in 0..MaxOrderEvents : \E xs \in SeqOfLen(OrderRecords, n) :
          traceEvents = <<ProcessNameRecord(1, "P")>> \o xs
    /\ memoryData = <<>>
    /\ _memory_trace_file = NoFile

NextOrder ==
    \/ ConvertTrace
    \/ HandleMetadata
    \/ HandleMetric
    \/ DeferCompleteEvent
    \/ SplitAndSort
    \/ HandleEvent
    \/ CloseSink

SpecOrder == InitOrder /\ [][NextOrder]_vars

\* C22: on each location the metric samples, enters and leaves the sink
\* received are non-decreasing in time, in the order of the log.
C22_OrderedPerLocation ==
    \A j, k \in EventCalls :
        (j < k /\ sink[j].loc = sink[k].loc) => sink[j].time <= sink[k].time

====
